---- MODULE Spec2Model ----
(***************************************************************************)
(* A model of the molecule analysis and derivative enumeration code of     *)
(* czech-cbd-analysis: rdkit_analysis.py (descriptors, Lipinski, ADMET,    *)
(* batch analysis) and generate_derivatives.py (chain variants,            *)
(* hydroxylation, derivative sets), with llm_integration.py (the chat      *)
(* client) and scrape_czech_cbd.py (scrape_products).                      *)
(*                                                                         *)
(* An encoding (SMILES string) is a sequence of one-character strings over *)
(* "C", "O", "(" and ")".  The toolkit calls of the source are modelled by *)
(* what they do on this fragment of the notation: acyclic molecules of     *)
(* carbon and oxygen with single bonds and implicit hydrogens.  Atom       *)
(* indices are 1-based here and 0-based in the source.                     *)
(*                                                                         *)
(* SpecEval applies evaluate_lipinski and heuristic_admet to descriptor    *)
(* sets, SpecDeriv is one call of propose_derivatives, SpecDerivRuns       *)
(* repeats the call in the same and in new processes, and SpecBatch is     *)
(* analyse_multiple.  SpecAnalyse is analyse_smiles statement by statement *)
(* in concurrent calls, SpecEdit the loops of propose_chain_variants and   *)
(* propose_hydroxylated statement by statement, SpecLlm one call of a      *)
(* function of llm_integration.py, and SpecScrape is scrape_products.      *)
(***************************************************************************)
EXTENDS Integers, Sequences, FiniteSets, TLC

\* Longest encoding drawn as an input of the derivative enumeration.
MaxLen == 5

Alphabet == {"C", "O", "(", ")"}

Elements == {"C", "O"}

\* The value of a failed parse (Python's None).
None == [none |-> TRUE]

RECURSIVE SeqsUpTo(_, _)
SeqsUpTo(S, n) ==
    IF n = 0 THEN {<<>>}
    ELSE LET shorter == SeqsUpTo(S, n - 1)
         IN  shorter \cup {Append(s, c) : s \in shorter, c \in S}

\* The encodings drawn as inputs: every non-empty string up to MaxLen.
Encodings == SeqsUpTo(Alphabet, MaxLen) \ {<<>>}

----------------------------------------------------------------------------
(* Molecular graphs: atoms is the sequence of element symbols (position =  *)
(* atom index), bonds the set of two-element sets of bonded atom indices.  *)

EmptyMol == [atoms |-> <<>>, bonds |-> {}]

NumAtoms(mol) == Len(mol.atoms)

Neighbors(mol, v) == {w \in 1..NumAtoms(mol) : {v, w} \in mol.bonds}

\* Atom.GetDegree(): the number of explicit (heavy-atom) neighbours.
GetDegree(mol, v) == Cardinality(Neighbors(mol, v))

Valence(el) == IF el = "C" THEN 4 ELSE 2

\* Total hydrogen count of an atom (all hydrogens are implicit here).
GetTotalNumHs(mol, v) == Valence(mol.atoms[v]) - GetDegree(mol, v)

\* RWMol.AddAtom: the new atom gets the next index.
AddAtom(mol, el) == [mol EXCEPT !.atoms = Append(@, el)]

\* RWMol.AddBond with a single bond.
AddBond(mol, a, b) == [mol EXCEPT !.bonds = @ \cup {{a, b}}]

\* The index an atom has after the atom idx was removed.
Shift(idx, w) == IF w > idx THEN w - 1 ELSE w

\* RWMol.RemoveAtom: drops the atom and its bonds; the atoms of higher index
\* move down by one.
RemoveAtom(mol, idx) ==
    [atoms |-> SubSeq(mol.atoms, 1, idx - 1)
                  \o SubSeq(mol.atoms, idx + 1, NumAtoms(mol)),
     bonds |-> {{Shift(idx, a), Shift(idx, b)} :
                    <<a, b>> \in {p \in (1..NumAtoms(mol)) \X (1..NumAtoms(mol)) :
                                     /\ p[1] < p[2]
                                     /\ {p[1], p[2]} \in mol.bonds
                                     /\ p[1] # idx
                                     /\ p[2] # idx}}]

----------------------------------------------------------------------------
(* Chem.MolFromSmiles on the fragment: atoms are bonded to the previous    *)
(* atom of their chain, "(" opens a branch at the previous atom and ")"    *)
(* returns to it.  The result is None for a branch that opens the string,  *)
(* an empty or unclosed branch, an unmatched ")" and for an atom bonded    *)
(* beyond its valence.  A bond symbol "-", "/" or "\" before an atom       *)
(* writes the single bond out (a direction next to no double bond says     *)
(* nothing); it must follow an atom or "(" or ")" and be followed by an    *)
(* atom.                                                                   *)

\* The symbols of a single bond.
BondSymbols == {"-", "/", "\\"}

ParseInit == [ok |-> TRUE, mol |-> EmptyMol, prev |-> 0, stack |-> <<>>,
              opened |-> FALSE, pending |-> FALSE]

ParseToken(st, tok) ==
    IF ~st.ok THEN st
    ELSE IF tok \in Elements THEN
        LET n == NumAtoms(st.mol) + 1
            withAtom == AddAtom(st.mol, tok)
        IN  [st EXCEPT !.mol = IF st.prev = 0 THEN withAtom
                                ELSE AddBond(withAtom, st.prev, n),
                       !.prev = n,
                       !.opened = FALSE,
                       !.pending = FALSE]
    ELSE IF tok \in BondSymbols THEN
        IF st.prev = 0 \/ st.pending THEN [st EXCEPT !.ok = FALSE]
        ELSE [st EXCEPT !.pending = TRUE]
    ELSE IF tok = "(" THEN
        IF st.prev = 0 \/ st.opened \/ st.pending THEN [st EXCEPT !.ok = FALSE]
        ELSE [st EXCEPT !.stack = Append(@, st.prev), !.opened = TRUE]
    ELSE IF tok # ")" THEN [st EXCEPT !.ok = FALSE]
    ELSE
        IF st.stack = <<>> \/ st.opened \/ st.pending THEN [st EXCEPT !.ok = FALSE]
        ELSE [st EXCEPT !.prev = st.stack[Len(st.stack)],
                        !.stack = SubSeq(@, 1, Len(@) - 1)]

RECURSIVE ParseFrom(_, _)
ParseFrom(st, smiles) ==
    IF smiles = <<>> THEN st
    ELSE ParseFrom(ParseToken(st, Head(smiles)), Tail(smiles))

ValenceOk(mol) ==
    \A v \in 1..NumAtoms(mol) : GetDegree(mol, v) <= Valence(mol.atoms[v])

\* None, or the parsed molecule.
MolFromSmiles(smiles) ==
    LET st == ParseFrom(ParseInit, smiles)
    IN  IF st.ok /\ st.stack = <<>> /\ ~st.opened /\ ~st.pending /\ ValenceOk(st.mol)
        THEN st.mol
        ELSE None

_safe_mol_from_smiles(smiles) == MolFromSmiles(smiles)

----------------------------------------------------------------------------
(* Chem.MolToSmiles(mol, canonical=True): one string per molecule, the     *)
(* same for every atom numbering.  A rooted writing lists an atom, then    *)
(* its branches in ascending order of their own writings, all but the last *)
(* in parentheses; the canonical form of a connected molecule is the least *)
(* of its rooted writings, and the fragments of a disconnected one are     *)
(* written in ascending order with "." between them.                       *)

Rank(c) == CASE c = "C" -> 1 [] c = "O" -> 2 [] c = "(" -> 3
             [] c = ")" -> 4 [] OTHER -> 5

RECURSIVE LexLess(_, _)
LexLess(s, t) ==
    IF t = <<>> THEN FALSE
    ELSE IF s = <<>> THEN TRUE
    ELSE IF Head(s) # Head(t) THEN Rank(Head(s)) < Rank(Head(t))
    ELSE LexLess(Tail(s), Tail(t))

\* The ascending sequence sorted with the string s put in its place.
RECURSIVE InsertString(_, _)
InsertString(s, sorted) ==
    IF sorted = <<>> THEN <<s>>
    ELSE IF LexLess(Head(sorted), s)
         THEN <<Head(sorted)>> \o InsertString(s, Tail(sorted))
    ELSE <<s>> \o sorted

RECURSIVE JoinBranches(_)
JoinBranches(strs) ==
    IF strs = <<>> THEN <<>>
    ELSE IF Len(strs) = 1 THEN strs[1]
    ELSE <<"(">> \o strs[1] \o <<")">> \o JoinBranches(Tail(strs))

RECURSIVE WriteFrom(_, _, _)
RECURSIVE BranchStrings(_, _, _)

\* The writings of the branches kids of atom v, in ascending order.
BranchStrings(mol, kids, v) ==
    IF kids = {} THEN <<>>
    ELSE LET k == CHOOSE w \in kids : TRUE
         IN  InsertString(WriteFrom(mol, k, v), BranchStrings(mol, kids \ {k}, v))

WriteFrom(mol, v, parent) ==
    <<mol.atoms[v]>> \o JoinBranches(BranchStrings(mol, Neighbors(mol, v) \ {parent}, v))

RECURSIVE Reach(_, _, _)
Reach(mol, seen, frontier) ==
    IF frontier = {} THEN seen
    ELSE LET nxt == UNION {Neighbors(mol, v) : v \in frontier} \ seen
         IN  Reach(mol, seen \cup nxt, nxt)

Fragment(mol, v) == Reach(mol, {v}, {v})

\* The least atom index of every fragment.
FragmentHeads(mol) ==
    {v \in 1..NumAtoms(mol) : \A w \in Fragment(mol, v) : v <= w}

\* The writings of a fragment rooted at each of the atoms roots, ascending.
RECURSIVE RootedWritings(_, _)
RootedWritings(mol, roots) ==
    IF roots = {} THEN <<>>
    ELSE LET r == CHOOSE w \in roots : TRUE
         IN  InsertString(WriteFrom(mol, r, 0), RootedWritings(mol, roots \ {r}))

FragmentSmiles(mol, head) == RootedWritings(mol, Fragment(mol, head))[1]

RECURSIVE FragmentStrings(_, _)
FragmentStrings(mol, heads) ==
    IF heads = {} THEN <<>>
    ELSE LET h == CHOOSE w \in heads : TRUE
         IN  InsertString(FragmentSmiles(mol, h), FragmentStrings(mol, heads \ {h}))

RECURSIVE JoinFragments(_)
JoinFragments(strs) ==
    IF strs = <<>> THEN <<>>
    ELSE IF Len(strs) = 1 THEN strs[1]
    ELSE strs[1] \o <<".">> \o JoinFragments(Tail(strs))

MolToSmiles(mol) == JoinFragments(FragmentStrings(mol, FragmentHeads(mol)))

\* The canonical form of a valid encoding.
Canonical(smiles) == MolToSmiles(MolFromSmiles(smiles))

Valid(smiles) == MolFromSmiles(smiles) # None

----------------------------------------------------------------------------
(* generate_derivatives.py                                                 *)

\* mol.GetSubstructMatches of the pattern [CH2][CH2][CH3]: every triple of
\* consecutive aliphatic carbons with two, two and three hydrogens.
TerminalChainMatches(mol) ==
    {m \in (1..NumAtoms(mol)) \X (1..NumAtoms(mol)) \X (1..NumAtoms(mol)) :
        /\ m[1] # m[3]
        /\ {m[1], m[2]} \in mol.bonds
        /\ {m[2], m[3]} \in mol.bonds
        /\ \A i \in 1..3 : mol.atoms[m[i]] = "C"
        /\ GetTotalNumHs(mol, m[1]) = 2
        /\ GetTotalNumHs(mol, m[2]) = 2
        /\ GetTotalNumHs(mol, m[3]) = 3}

\* The value of an edit that raised (RemoveAtom of an index that is no atom).
RangeError == [raised |-> TRUE]

\* The loop "for i in range(delta)": n more carbons, each bonded to the last.
RECURSIVE Lengthen(_, _, _)
Lengthen(rw_mol, end_idx, n) ==
    IF n = 0 THEN rw_mol
    ELSE LET new_idx == NumAtoms(rw_mol) + 1
         IN  Lengthen(AddBond(AddAtom(rw_mol, "C"), end_idx, new_idx), new_idx, n - 1)

\* A slip in the degree test: no atom is ever removed.
ShortenNothing(rw_mol, degree, end_idx, n) == rw_mol

\* The loop "for i in range(-delta)": degree is chain_atom.GetDegree(), the
\* degree of the end atom in the parsed molecule; end_idx is never updated.
RECURSIVE Shorten(_, _, _, _)
Shorten(rw_mol, degree, end_idx, n) ==
    IF n = 0 THEN rw_mol
    ELSE IF degree # 1 THEN rw_mol
    ELSE IF end_idx > NumAtoms(rw_mol) THEN RangeError
    ELSE Shorten(RemoveAtom(rw_mol, end_idx), degree, end_idx, n - 1)

\* A slip in the index: the first matched atom instead of the last.
EndIdxFirst(match) == match[1]

\* The atom the edit is made at: match[-1].
EndIdx(match) == match[3]

\* The body of the loop over the matches: the edited copy of mol.
ChainEdit(mol, match, delta) ==
    IF delta > 0 THEN Lengthen(mol, EndIdx(match), delta)
    ELSE IF delta < 0
         THEN Shorten(mol, GetDegree(mol, EndIdx(match)), EndIdx(match), 0 - delta)
    ELSE mol

\* The list propose_chain_variants returns, as the set of its entries (it is
\* list(set(...)), and its callers only iterate over it).
propose_chain_variants(smiles, delta) ==
    LET mol == _safe_mol_from_smiles(smiles)
    IN  IF mol = None THEN {}
        ELSE IF TerminalChainMatches(mol) = {} THEN {smiles}
        ELSE {MolToSmiles(ChainEdit(mol, match, delta)) :
                 match \in TerminalChainMatches(mol)}

\* The atoms the reactant template [CH3:1] matches.
MethylMatches(mol) ==
    {a \in 1..NumAtoms(mol) : mol.atoms[a] = "C" /\ GetTotalNumHs(mol, a) = 3}

\* rxn.RunReactants for [CH3:1]>>[CH2:1]O: one product per matched atom, the
\* molecule with a new oxygen bonded to that atom.
RunReactants(mol) ==
    {AddBond(AddAtom(mol, "O"), a, NumAtoms(mol) + 1) : a \in MethylMatches(mol)}

propose_hydroxylated(smiles) ==
    LET mol == _safe_mol_from_smiles(smiles)
    IN  IF mol = None THEN {}
        ELSE IF RunReactants(mol) = {} THEN {smiles}
        ELSE {MolToSmiles(prod) : prod \in RunReactants(mol)}

\* The orders in which a set can be listed.
Perms(S) ==
    {p \in [1..Cardinality(S) -> S] : \A i, j \in 1..Cardinality(S) : p[i] = p[j] => i = j}

ToSet(seq) == {seq[i] : i \in 1..Len(seq)}

----------------------------------------------------------------------------
(* rdkit_analysis.py: the rule evaluations.  Descriptor values are drawn   *)
(* as integers on both sides of every threshold the rules compare with.    *)

LipinskiKeys == {"MolWt<=500", "LogP<=5", "HBD<=5", "HBA<=10"}

\* A slip in the first bound: exclusive instead of inclusive.
evaluate_lipinski_exclusive(descriptors) ==
    LET violations ==
            [k \in LipinskiKeys |->
                CASE k = "MolWt<=500" -> descriptors.MolWt < 500
                  [] k = "LogP<=5"    -> descriptors.LogP <= 5
                  [] k = "HBD<=5"     -> descriptors.NumHDonors <= 5
                  [] k = "HBA<=10"    -> descriptors.NumHAcceptors <= 10]
    IN  [lipinski_pass |-> \A k \in LipinskiKeys : violations[k],
         violations |-> violations]

evaluate_lipinski(descriptors) ==
    LET violations ==
            [k \in LipinskiKeys |->
                CASE k = "MolWt<=500" -> descriptors.MolWt <= 500
                  [] k = "LogP<=5"    -> descriptors.LogP <= 5
                  [] k = "HBD<=5"     -> descriptors.NumHDonors <= 5
                  [] k = "HBA<=10"    -> descriptors.NumHAcceptors <= 10]
    IN  [lipinski_pass |-> \A k \in LipinskiKeys : violations[k],
         violations |-> violations]

\* A slip in the order of the absorption branches: LogP > 5 is tested first.
heuristic_admet_reordered(descriptors) ==
    LET abs_label ==
            IF descriptors.LogP > 5 THEN "moderate"
            ELSE IF descriptors.MolWt > 600 \/ descriptors.NumRotatableBonds > 10
                 THEN "poor"
            ELSE IF descriptors.LogP < 0 \/ descriptors.tPSA > 140 THEN "poor"
            ELSE "good"
        brain ==
            IF descriptors.LogP > 2 /\ descriptors.tPSA < 70 THEN "likely"
            ELSE IF descriptors.LogP > 1 /\ descriptors.tPSA < 90 THEN "possible"
            ELSE "unlikely"
        toxicity ==
            IF descriptors.LogP > 5 \/ descriptors.MolWt > 600 THEN "high"
            ELSE IF descriptors.NumHDonors > 5 \/ descriptors.NumHAcceptors > 10
                 THEN "moderate"
            ELSE "low"
        clearance ==
            IF descriptors.LogP < 2 /\ descriptors.MolWt < 350 THEN "fast"
            ELSE IF descriptors.LogP > 4 THEN "slow"
            ELSE "moderate"
    IN  [Absorption |-> abs_label, BrainPenetration |-> brain,
         Toxicity |-> toxicity, Clearance |-> clearance]

\* A slip in the order of the brain-penetration branches: the wider rule
\* (possible) is tested before the narrower one (likely).
heuristic_admet_brain_swapped(descriptors) ==
    LET abs_label ==
            IF descriptors.MolWt > 600 \/ descriptors.NumRotatableBonds > 10 THEN "poor"
            ELSE IF descriptors.LogP < 0 \/ descriptors.tPSA > 140 THEN "poor"
            ELSE IF descriptors.LogP > 5 THEN "moderate"
            ELSE "good"
        brain ==
            IF descriptors.LogP > 1 /\ descriptors.tPSA < 90 THEN "possible"
            ELSE IF descriptors.LogP > 2 /\ descriptors.tPSA < 70 THEN "likely"
            ELSE "unlikely"
        toxicity ==
            IF descriptors.LogP > 5 \/ descriptors.MolWt > 600 THEN "high"
            ELSE IF descriptors.NumHDonors > 5 \/ descriptors.NumHAcceptors > 10
                 THEN "moderate"
            ELSE "low"
        clearance ==
            IF descriptors.LogP < 2 /\ descriptors.MolWt < 350 THEN "fast"
            ELSE IF descriptors.LogP > 4 THEN "slow"
            ELSE "moderate"
    IN  [Absorption |-> abs_label, BrainPenetration |-> brain,
         Toxicity |-> toxicity, Clearance |-> clearance]

\* A slip at the boundary of the absorption rule: LogP = 5 counts as above 5.
heuristic_admet_logp_inclusive(descriptors) ==
    LET abs_label ==
            IF descriptors.MolWt > 600 \/ descriptors.NumRotatableBonds > 10 THEN "poor"
            ELSE IF descriptors.LogP < 0 \/ descriptors.tPSA > 140 THEN "poor"
            ELSE IF descriptors.LogP >= 5 THEN "moderate"
            ELSE "good"
        brain ==
            IF descriptors.LogP > 2 /\ descriptors.tPSA < 70 THEN "likely"
            ELSE IF descriptors.LogP > 1 /\ descriptors.tPSA < 90 THEN "possible"
            ELSE "unlikely"
        toxicity ==
            IF descriptors.LogP > 5 \/ descriptors.MolWt > 600 THEN "high"
            ELSE IF descriptors.NumHDonors > 5 \/ descriptors.NumHAcceptors > 10
                 THEN "moderate"
            ELSE "low"
        clearance ==
            IF descriptors.LogP < 2 /\ descriptors.MolWt < 350 THEN "fast"
            ELSE IF descriptors.LogP > 4 THEN "slow"
            ELSE "moderate"
    IN  [Absorption |-> abs_label, BrainPenetration |-> brain,
         Toxicity |-> toxicity, Clearance |-> clearance]

heuristic_admet(descriptors) ==
    LET abs_label ==
            IF descriptors.MolWt > 600 \/ descriptors.NumRotatableBonds > 10 THEN "poor"
            ELSE IF descriptors.LogP < 0 \/ descriptors.tPSA > 140 THEN "poor"
            ELSE IF descriptors.LogP > 5 THEN "moderate"
            ELSE "good"
        brain ==
            IF descriptors.LogP > 2 /\ descriptors.tPSA < 70 THEN "likely"
            ELSE IF descriptors.LogP > 1 /\ descriptors.tPSA < 90 THEN "possible"
            ELSE "unlikely"
        toxicity ==
            IF descriptors.LogP > 5 \/ descriptors.MolWt > 600 THEN "high"
            ELSE IF descriptors.NumHDonors > 5 \/ descriptors.NumHAcceptors > 10
                 THEN "moderate"
            ELSE "low"
        clearance ==
            IF descriptors.LogP < 2 /\ descriptors.MolWt < 350 THEN "fast"
            ELSE IF descriptors.LogP > 4 THEN "slow"
            ELSE "moderate"
    IN  [Absorption |-> abs_label, BrainPenetration |-> brain,
         Toxicity |-> toxicity, Clearance |-> clearance]

\* The descriptor sets the evaluations are applied to.
DescriptorSets ==
    [MolWt : {300, 349, 350, 450, 500, 501, 600, 601, 650, 700},
     LogP : {-1, 0, 1, 2, 3, 4, 5, 6},
     NumHDonors : {0, 5, 6},
     NumHAcceptors : {2, 10, 11},
     NumRotatableBonds : {2, 10, 11},
     tPSA : {50, 69, 70, 89, 90, 140, 141}]

----------------------------------------------------------------------------
(* rdkit_analysis.py: analyse_smiles and analyse_multiple.                 *)

RECURSIVE SumOver(_, _)
SumOver(f, n) == IF n = 0 THEN 0 ELSE f[n] + SumOver(f, n - 1)

\* compute_descriptors on the fragment, in whole numbers: weights 12, 16 and
\* 1, a rounded additive logP, donors = oxygens bearing a hydrogen,
\* acceptors = oxygens, rotatable bonds = bonds between two non-terminal
\* atoms, polar surface 32 / 20 / 9 per oxygen with two / one / no hydrogen.
compute_descriptors(mol) ==
    LET IsO(v) == mol.atoms[v] = "O"
        hydroxyls == {v \in 1..NumAtoms(mol) : IsO(v) /\ GetTotalNumHs(mol, v) >= 1}
        nC == Cardinality({v \in 1..NumAtoms(mol) : mol.atoms[v] = "C"})
        nO == Cardinality({v \in 1..NumAtoms(mol) : IsO(v)})
        nH == SumOver([v \in 1..NumAtoms(mol) |-> GetTotalNumHs(mol, v)], NumAtoms(mol))
        psa == [v \in 1..NumAtoms(mol) |->
                   IF ~IsO(v) THEN 0
                   ELSE CASE GetTotalNumHs(mol, v) = 2 -> 32
                          [] GetTotalNumHs(mol, v) = 1 -> 20
                          [] OTHER -> 9]
    IN  [MolWt |-> 12 * nC + 16 * nO + nH,
         LogP |-> (nC \div 2) - nO,
         NumHDonors |-> Cardinality(hydroxyls),
         NumHAcceptors |-> nO,
         NumRotatableBonds |->
             Cardinality({b \in mol.bonds : \A v \in b : GetDegree(mol, v) >= 2}),
         tPSA |-> SumOver(psa, NumAtoms(mol)),
         FractionCSP3 |-> IF nC > 0 THEN 1 ELSE 0,
         HeavyAtomCount |-> NumAtoms(mol),
         NHOHCount |-> Cardinality(hydroxyls),
         NOCount |-> nO,
         RingCount |-> 0]

\* QED.qed(mol): a score that is a function of the molecule alone.
qed(mol) == [qed_of |-> MolToSmiles(mol)]

\* str.replace(old, new) with a one-character old.
RECURSIVE Replace(_, _, _)
Replace(str, old, new) ==
    IF str = <<>> THEN <<>>
    ELSE (IF Head(str) = old THEN new ELSE <<Head(str)>>) \o Replace(Tail(str), old, new)

smiles_to_safe_filename(str) ==
    Replace(Replace(Replace(Replace(Replace(Replace(Replace(Replace(str,
        "/", <<"-">>),
        "\\", <<"-">>),
        "#", <<"h", "a", "s", "h">>),
        "*", <<"s", "t", "a", "r">>),
        "?", <<"q", "u", "e", "s", "t", "i", "o", "n">>),
        ":", <<"-">>),
        "<", <<"-">>),
        ">", <<"-">>)

\* The file system as analyse_smiles sees it: the directories that exist and
\* the image files, each with the molecule it depicts.
NoFiles == [dirs |-> {}, files |-> {}]

\* os.path.join(image_dir, f"{...}.png")
ImageFile(dir, str) ==
    [dir |-> dir, name |-> smiles_to_safe_filename(str) \o <<".", "p", "n", "g">>]

\* img.save(filename): the file is created or overwritten.
SaveImage(fs, filename, mol) ==
    [fs EXCEPT !.files = {f \in @ : f.path # filename}
                            \cup {[path |-> filename, depicts |-> MolToSmiles(mol)]}]

\* analyse_smiles(smiles, image_dir) run on the file system fs; save_raises
\* tells whether img.save raises OSError in this call.  An empty image_dir is
\* the falsy value (None or "").  The value is what the call raised or
\* returned, and the file system it leaves.
analyse_smiles(str, dir, fs, save_raises) ==
    LET mol == MolFromSmiles(str)
    IN  IF mol = None
        THEN [raised |-> "ValueError", fs |-> fs]
        ELSE LET descriptors == compute_descriptors(mol)
                 lipinski == evaluate_lipinski(descriptors)
                 made == [fs EXCEPT !.dirs = @ \cup {dir}]
                 filename == ImageFile(dir, str)
                 result == [smiles |-> str,
                            mol |-> mol,
                            descriptors |-> descriptors,
                            lipinski_pass |-> lipinski.lipinski_pass,
                            lipinski_violations |-> lipinski.violations,
                            qed_score |-> qed(mol),
                            admet_predictions |-> heuristic_admet(descriptors)]
             IN  IF dir = "" THEN
                     [raised |-> "", fs |-> fs,
                      result |-> result @@ [image_path |-> None]]
                 ELSE IF save_raises THEN
                     [raised |-> "OSError", fs |-> made]
                 ELSE
                     [raised |-> "", fs |-> SaveImage(made, filename, mol),
                      result |-> result @@ [image_path |-> filename]]

\* The row analyse_multiple builds from a result (lines 227-231): the
\* descriptors, the Lipinski flags and the ADMET labels under their prefixes.
MakeRow(smi, res) ==
    ("QED" :> res.qed_score) @@
    [descriptors |-> res.descriptors,
     SMILES |-> smi,
     Lipinski |-> res.lipinski_violations,
     Lipinski_Pass |-> res.lipinski_pass,
     ADMET |-> res.admet_predictions,
     ImagePath |-> res.image_path]

\* A slip in the error handling: the exception of a failing item is not
\* caught and ends the loop.
LoopBodyUncaught(acc, smi, dir, save_raises) ==
    LET call == analyse_smiles(smi, dir, acc.fs, save_raises)
    IN  IF call.raised # ""
        THEN [acc EXCEPT !.fs = call.fs, !.aborted = TRUE]
        ELSE [acc EXCEPT !.fs = call.fs,
                         !.rows = Append(@, MakeRow(smi, call.result))]

\* One iteration of the loop of analyse_multiple (lines 224-234) on the
\* accumulated rows, log and file system.
LoopBody(acc, smi, dir, save_raises) ==
    LET call == analyse_smiles(smi, dir, acc.fs, save_raises)
    IN  IF call.raised # ""
        THEN [acc EXCEPT !.fs = call.fs,
                         !.logged = Append(@, <<smi, call.raised>>)]
        ELSE [acc EXCEPT !.fs = call.fs,
                         !.rows = Append(@, MakeRow(smi, call.result))]

\* Longest list analyse_multiple is given.
MaxBatch == 3

\* The encodings the lists are made of: three valid and two invalid.
BatchPool ==
    {<<"C", "C", "O">>, <<"O", "C">>, <<"C", "C", "C", "C">>, <<"C", "(">>, <<")">>}

----------------------------------------------------------------------------
VARIABLES
    desc,       \* evaluation: the descriptor set
    lip,        \* evaluation: what evaluate_lipinski returned, or None
    admet,      \* evaluation: what heuristic_admet returned, or None
    smiles,     \* propose_derivatives: its argument
    dpc,        \* propose_derivatives: the position in its body
    results,    \* propose_derivatives: the set it collects
    ret,        \* propose_derivatives: the list it returned (<<>> before)
    outcome,    \* propose_derivatives: "running", "returned" or "raised"
    prevRet,    \* the list the previous call returned (<<>> in the first call)
    procOrder,  \* the order this process lists the result set in (<<>>: not yet)
    calls,      \* propose_derivatives: the number of calls begun
    smiles_list,  \* analyse_multiple: its argument
    image_dir,    \* analyse_multiple: its argument ("" when not given)
    save_raises,  \* the positions of the items at which img.save raises
    bpc,          \* analyse_multiple: "loop", "done" or "raised"
    bi,           \* analyse_multiple: the position of the next item
    rows,         \* analyse_multiple: results
    logged,       \* the failures logged: <<encoding, error>>
    fs,           \* the file system
    threads,      \* analyse_smiles: the local state of each concurrent call
    disk,         \* the file system the concurrent calls share
    esmiles,      \* the edits: the encoding parsed
    eentry,       \* "matches": propose_chain_variants or propose_hydroxylated;
                  \* "atom": the edit of one loop iteration applied at any atom
    eop,          \* "chain" or "hydroxylate"
    edelta,       \* the argument delta (0 for hydroxylate)
    epc,          \* "next", "edit", "emit", "react", "done", "raised" or "idle"
    heap,         \* the molecule objects alive, by reference
    eleft,        \* the matches the loop has not yet visited
    ematch,       \* the match of the current iteration (<<>> before the first)
    rw_mol,       \* the reference of the working molecule (0 before the first)
    end_idx,      \* the index the edit is made at
    ei,           \* iterations the inner loop has left
    evariants,    \* variants
    lfn,          \* llm_integration: the function the caller calls
    api_key,      \* llm_integration: its argument api_key
    ltext,        \* llm_integration: the user's text
    lpc,          \* "call", "post", "send", "status", "extract", "done", "raised"
    lendpoint,    \* _post: endpoint
    lpayload,     \* _post: payload
    lsent,        \* the POST requests sent
    lresp,        \* the response received (None before)
    lresult,      \* what the function returned (None before)
    lraised,      \* what the function raised ("" if nothing)
    urls,         \* scrape_products: its argument, each URL with what the
                  \* network and the directory of saved pages hold for it
    html_dir,     \* scrape_products: its argument ("" when not given)
    spc,          \* scrape_products: "loop", "done" or "raised"
    si,           \* scrape_products: the position of the next URL
    products      \* scrape_products: products

evalVars == <<desc, lip, admet>>
derivVars == <<smiles, dpc, results, ret, outcome, prevRet, procOrder, calls>>
batchVars == <<smiles_list, image_dir, save_raises, bpc, bi, rows, logged, fs>>
analyseVars == <<threads, disk>>
editVars == <<esmiles, eentry, eop, edelta, epc, heap, eleft, ematch, rw_mol, end_idx,
              ei, evariants>>
llmVars == <<lfn, api_key, ltext, lpc, lendpoint, lpayload, lsent, lresp, lresult, lraised>>
scrapeVars == <<urls, html_dir, spc, si, products>>
extVars == <<analyseVars, editVars, llmVars, scrapeVars>>
vars == <<evalVars, derivVars, batchVars, extVars>>

\* Calls of propose_derivatives made on one input.
MaxCalls == 2

EvalIdle == desc = None /\ lip = None /\ admet = None

DerivIdle ==
    /\ smiles = <<>>
    /\ dpc = "idle"
    /\ results = {}
    /\ ret = <<>>
    /\ outcome = "idle"
    /\ prevRet = <<>>
    /\ procOrder = <<>>
    /\ calls = 0

BatchIdle ==
    /\ smiles_list = <<>>
    /\ image_dir = ""
    /\ save_raises = {}
    /\ bpc = "idle"
    /\ bi = 0
    /\ rows = <<>>
    /\ logged = <<>>
    /\ fs = NoFiles

AnalyseIdle == threads = <<>> /\ disk = NoFiles

EditIdle ==
    /\ esmiles = <<>>
    /\ eentry = "idle"
    /\ eop = "idle"
    /\ edelta = 0
    /\ epc = "idle"
    /\ heap = <<>>
    /\ eleft = {}
    /\ ematch = <<>>
    /\ rw_mol = 0
    /\ end_idx = 0
    /\ ei = 0
    /\ evariants = {}

LlmIdle ==
    /\ lfn = "idle"
    /\ api_key = ""
    /\ ltext = ""
    /\ lpc = "idle"
    /\ lendpoint = ""
    /\ lpayload = None
    /\ lsent = <<>>
    /\ lresp = None
    /\ lresult = None
    /\ lraised = ""

ScrapeIdle ==
    /\ urls = <<>>
    /\ html_dir = ""
    /\ spc = "idle"
    /\ si = 0
    /\ products = <<>>

ExtIdle == AnalyseIdle /\ EditIdle /\ LlmIdle /\ ScrapeIdle

----------------------------------------------------------------------------
(* The evaluations applied to a descriptor set, as analyse_smiles applies  *)
(* them (lines 183 and 185).                                               *)

InitEval ==
    /\ desc \in DescriptorSets
    /\ lip = None
    /\ admet = None
    /\ DerivIdle
    /\ BatchIdle
    /\ ExtIdle

EvaluateLipinski ==
    /\ desc # None
    /\ lip = None
    /\ lip' = evaluate_lipinski(desc)
    /\ UNCHANGED <<desc, admet, derivVars, batchVars, extVars>>

HeuristicAdmet ==
    /\ desc # None
    /\ admet = None
    /\ admet' = heuristic_admet(desc)
    /\ UNCHANGED <<desc, lip, derivVars, batchVars, extVars>>

NextEval == EvaluateLipinski \/ HeuristicAdmet

SpecEval == InitEval /\ [][NextEval]_vars

----------------------------------------------------------------------------
(* propose_derivatives, one action per statement of its body.              *)

InitDeriv ==
    /\ EvalIdle
    /\ BatchIdle
    /\ ExtIdle
    /\ smiles \in Encodings
    /\ dpc = "chain_plus"
    /\ results = {}
    /\ ret = <<>>
    /\ outcome = "running"
    /\ prevRet = <<>>
    /\ procOrder = <<>>
    /\ calls = 1

\* for delta in [1, -1]: the iteration with delta = 1.
ChainVariantsPlus ==
    /\ dpc = "chain_plus"
    /\ results' = results \cup propose_chain_variants(smiles, 1)
    /\ dpc' = "chain_minus"
    /\ UNCHANGED <<evalVars, batchVars, extVars, smiles, ret, outcome, prevRet, procOrder, calls>>

\* for delta in [1, -1]: the iteration with delta = -1.
ChainVariantsMinus ==
    /\ dpc = "chain_minus"
    /\ results' = results \cup propose_chain_variants(smiles, -1)
    /\ dpc' = "hydroxylated"
    /\ UNCHANGED <<evalVars, batchVars, extVars, smiles, ret, outcome, prevRet, procOrder, calls>>

Hydroxylated ==
    /\ dpc = "hydroxylated"
    /\ results' = results \cup propose_hydroxylated(smiles)
    /\ dpc' = "add_original"
    /\ UNCHANGED <<evalVars, batchVars, extVars, smiles, ret, outcome, prevRet, procOrder, calls>>

\* results.add(smiles)
AddOriginal ==
    /\ dpc = "add_original"
    /\ results' = results \cup {smiles}
    /\ dpc' = "return"
    /\ UNCHANGED <<evalVars, batchVars, extVars, smiles, ret, outcome, prevRet, procOrder, calls>>

\* return list(results): the order of a set of strings is the order of their
\* hashes, which are salted per process.  A process lists the same set, built
\* the same way, in the same order each time; another process may list it in
\* any order.
ListOrders(S) == IF procOrder = <<>> THEN Perms(S) ELSE {procOrder}

ReturnList ==
    /\ dpc = "return"
    /\ \E order \in ListOrders(results) :
          /\ ret' = order
          /\ procOrder' = order
    /\ outcome' = "returned"
    /\ dpc' = "done"
    /\ UNCHANGED <<evalVars, batchVars, extVars, smiles, results, prevRet, calls>>

\* The caller calls again with the same encoding, in the same process.
CallAgain ==
    /\ dpc = "done"
    /\ calls < MaxCalls
    /\ calls' = calls + 1
    /\ prevRet' = ret
    /\ ret' = <<>>
    /\ results' = {}
    /\ outcome' = "running"
    /\ dpc' = "chain_plus"
    /\ UNCHANGED <<evalVars, batchVars, extVars, smiles, procOrder>>

\* The program is run again and calls with the same encoding.
CallInNewRun ==
    /\ dpc = "done"
    /\ calls < MaxCalls
    /\ calls' = calls + 1
    /\ prevRet' = ret
    /\ ret' = <<>>
    /\ results' = {}
    /\ outcome' = "running"
    /\ procOrder' = <<>>
    /\ dpc' = "chain_plus"
    /\ UNCHANGED <<evalVars, batchVars, extVars, smiles>>

\* One call of propose_derivatives.
NextDeriv ==
    \/ ChainVariantsPlus
    \/ ChainVariantsMinus
    \/ Hydroxylated
    \/ AddOriginal
    \/ ReturnList

SpecDeriv == InitDeriv /\ [][NextDeriv]_vars

\* Repeated calls on the same encoding, in the same and in new processes.
NextDerivRuns ==
    \/ ChainVariantsPlus
    \/ ChainVariantsMinus
    \/ Hydroxylated
    \/ AddOriginal
    \/ ReturnList
    \/ CallAgain
    \/ CallInNewRun

SpecDerivRuns == InitDeriv /\ [][NextDerivRuns]_vars

----------------------------------------------------------------------------
(* analyse_multiple, one action per iteration of its loop.                 *)

InitBatch ==
    /\ EvalIdle
    /\ DerivIdle
    /\ ExtIdle
    /\ smiles_list \in SeqsUpTo(BatchPool, MaxBatch)
    /\ image_dir \in {"", "molecule_images"}
    /\ save_raises \in SUBSET (1..Len(smiles_list))
    /\ image_dir = "" => save_raises = {}
    /\ bpc = "loop"
    /\ bi = 1
    /\ rows = <<>>
    /\ logged = <<>>
    /\ fs = NoFiles

\* for smi in smiles_list: try ... except Exception
AnalyseNext ==
    /\ bpc = "loop"
    /\ bi <= Len(smiles_list)
    /\ LET acc == LoopBody([rows |-> rows, logged |-> logged, fs |-> fs,
                            aborted |-> FALSE],
                           smiles_list[bi], image_dir, bi \in save_raises)
       IN  /\ rows' = acc.rows
           /\ logged' = acc.logged
           /\ fs' = acc.fs
           /\ bpc' = IF acc.aborted THEN "raised" ELSE "loop"
    /\ bi' = bi + 1
    /\ UNCHANGED <<evalVars, derivVars, extVars, smiles_list, image_dir, save_raises>>

\* return pd.DataFrame(results)
ReturnTable ==
    /\ bpc = "loop"
    /\ bi > Len(smiles_list)
    /\ bpc' = "done"
    /\ UNCHANGED <<evalVars, derivVars, extVars, smiles_list, image_dir, save_raises,
                   bi, rows, logged, fs>>

NextBatch == AnalyseNext \/ ReturnTable

SpecBatch == InitBatch /\ [][NextBatch]_vars

----------------------------------------------------------------------------
(* Properties of propose_derivatives, checked under SpecDeriv (C8: under   *)
(* SpecDerivRuns).                                                         *)

Returned == dpc = "done"

\* The molecule an entry of the result stands for: its canonical form, or
\* the entry itself when it is no valid encoding.
EntryForm(s) == IF Valid(s) THEN Canonical(s) ELSE s

\* C4: for any valid input encoding x, the returned sequence contains the
\* canonical form of x, also when x is not written in canonical form.
C4_CanonicalFormIncluded ==
    (Returned /\ Valid(smiles)) => Canonical(smiles) \in ToSet(ret)

\* C5: the returned sequence contains no two entries with equal canonical
\* forms: every molecule appears at most once, the input molecule included.
C5_NoDuplicates ==
    Returned =>
        LET form == [i \in 1..Len(ret) |-> EntryForm(ret[i])]
            forms == {form[i] : i \in 1..Len(ret)}
        IN  Cardinality(forms) = Len(ret)

\* A non-canonical input with a terminal chain: the result holds the input as
\* written beside the canonical forms of its variants.
C5_Witness ==
    /\ Returned
    /\ Valid(smiles)
    /\ smiles # Canonical(smiles)
    /\ TerminalChainMatches(MolFromSmiles(smiles)) # {}
    /\ Len(ret) >= 4

\* C6: applied to an encoding that cannot be parsed, propose_derivatives
\* fails with an InvalidEncoding error and returns no sequence.
C6_InvalidEncodingRaises ==
    (Returned /\ ~Valid(smiles)) => (outcome = "raised" /\ ret = <<>>)

\* C7: for a valid encoding with no terminal-chain and no terminal-methyl
\* occurrence, propose_derivatives raises no error and returns exactly one
\* element, the canonical form of the input.
C7_NoMatchReturnsCanonical ==
    LET mol == MolFromSmiles(smiles)
    IN  (/\ Returned
         /\ mol # None
         /\ TerminalChainMatches(mol) = {}
         /\ MethylMatches(mol) = {})
            => (outcome = "returned" /\ ret = <<MolToSmiles(mol)>>)

\* C8: two invocations on the same encoding, in the same or in different
\* runs of the program, return the same elements in the same order.
C8_SameOrder ==
    (Returned /\ calls >= 2) => ret = prevRet

\* The molecule with one more carbon, singly bonded to the atom anchor.
OneMoreCarbon(mol, anchor) ==
    [atoms |-> Append(mol.atoms, "C"),
     bonds |-> mol.bonds \cup {{anchor, NumAtoms(mol) + 1}}]

\* ChainExtend with delta = -1: the molecule without the atom anchor when
\* that atom is a chain terminus, the molecule itself otherwise.
OneLessCarbon(mol, anchor) ==
    IF GetDegree(mol, anchor) = 1 THEN RemoveAtom(mol, anchor) ELSE mol

\* The occurrences of the pattern terminal-chain as the specification words
\* it: three consecutive (sp3, non-aromatic) carbons, the last with exactly
\* one heavy-atom neighbour.
TerminalChainOccurrences(mol) ==
    {m \in (1..NumAtoms(mol)) \X (1..NumAtoms(mol)) \X (1..NumAtoms(mol)) :
        /\ m[1] # m[3]
        /\ {m[1], m[2]} \in mol.bonds
        /\ {m[2], m[3]} \in mol.bonds
        /\ \A i \in 1..3 : mol.atoms[m[i]] = "C"
        /\ GetDegree(mol, m[3]) = 1}

----------------------------------------------------------------------------
(* Properties of the rule evaluations, checked under SpecEval.             *)

\* C1: the overall pass flag is true iff all four sub-rule booleans are
\* true, each sub-rule being its inclusive bound; a descriptor set with
\* MolWt > 500 reports MolWt<=500 false and pass false whatever the rest.
C1_LipinskiPass ==
    lip # None =>
        /\ DOMAIN lip.violations = LipinskiKeys
        /\ lip.violations["MolWt<=500"] = (desc.MolWt <= 500)
        /\ lip.violations["LogP<=5"] = (desc.LogP <= 5)
        /\ lip.violations["HBD<=5"] = (desc.NumHDonors <= 5)
        /\ lip.violations["HBA<=10"] = (desc.NumHAcceptors <= 10)
        /\ lip.lipinski_pass =
              (/\ lip.violations["MolWt<=500"]
               /\ lip.violations["LogP<=5"]
               /\ lip.violations["HBD<=5"]
               /\ lip.violations["HBA<=10"])
        /\ desc.MolWt > 500 =>
              (~lip.violations["MolWt<=500"] /\ ~lip.lipinski_pass)

\* MolWt = 650 with every other sub-rule satisfied has been evaluated.
C1_Witness ==
    /\ lip # None
    /\ desc.MolWt = 650
    /\ desc.LogP <= 5
    /\ desc.NumHDonors <= 5
    /\ desc.NumHAcceptors <= 10
    /\ ~lip.lipinski_pass

\* The rule tables of the four categories, top to bottom: <<condition, label>>.
AbsorptionTable(d) ==
    << <<d.MolWt > 600 \/ d.NumRotatableBonds > 10, "poor">>,
       <<d.LogP < 0 \/ d.tPSA > 140, "poor">>,
       <<d.LogP > 5, "moderate">> >>

BrainPenetrationTable(d) ==
    << <<d.LogP > 2 /\ d.tPSA < 70, "likely">>,
       <<d.LogP > 1 /\ d.tPSA < 90, "possible">> >>

ToxicityTable(d) ==
    << <<d.LogP > 5 \/ d.MolWt > 600, "high">>,
       <<d.NumHDonors > 5 \/ d.NumHAcceptors > 10, "moderate">> >>

ClearanceTable(d) ==
    << <<d.LogP < 2 /\ d.MolWt < 350, "fast">>,
       <<d.LogP > 4, "slow">> >>

\* The label of the first satisfied row, or the default.
RECURSIVE FirstMatch(_, _)
FirstMatch(table, default) ==
    IF table = <<>> THEN default
    ELSE IF Head(table)[1] THEN Head(table)[2]
    ELSE FirstMatch(Tail(table), default)

\* C2: each category's label is the label of the first satisfied row of its
\* rule table, or its default (good / unlikely / low / moderate); the result
\* has exactly the four keys.
C2_FirstMatchTables ==
    admet # None =>
        /\ DOMAIN admet = {"Absorption", "BrainPenetration", "Toxicity", "Clearance"}
        /\ admet.Absorption = FirstMatch(AbsorptionTable(desc), "good")
        /\ admet.BrainPenetration = FirstMatch(BrainPenetrationTable(desc), "unlikely")
        /\ admet.Toxicity = FirstMatch(ToxicityTable(desc), "low")
        /\ admet.Clearance = FirstMatch(ClearanceTable(desc), "moderate")

\* A descriptor set that satisfies both rows of the brain-penetration table
\* and no row of the toxicity table has been labelled.
C2_Witness ==
    /\ admet # None
    /\ desc.LogP > 2
    /\ desc.tPSA < 70
    /\ admet.BrainPenetration = "likely"
    /\ admet.Toxicity = "low"
    /\ admet.Absorption = "good"

\* C3: whenever MolWt > 600 or RotatableBonds > 10, Absorption is "poor"
\* whatever LogP and tPSA are.
C3_AbsorptionPriority ==
    (admet # None /\ (desc.MolWt > 600 \/ desc.NumRotatableBonds > 10))
        => admet.Absorption = "poor"

\* MolWt = 700 with two rotatable bonds, the second row false and the third
\* row (LogP > 5) true.
C3_Witness ==
    /\ admet # None
    /\ desc.MolWt = 700
    /\ desc.NumRotatableBonds = 2
    /\ desc.LogP > 5
    /\ desc.tPSA <= 140
    /\ admet.Absorption = "poor"

----------------------------------------------------------------------------
(* Properties of analyse_multiple, checked under SpecBatch.                *)

\* Whether the item at position i analyses successfully: it parses, and its
\* image, when one is asked for, is saved.
Succeeds(i) ==
    /\ Valid(smiles_list[i])
    /\ image_dir = "" \/ i \notin save_raises

\* The row of an encoding analysed on its own.
RowAlone(smi) ==
    MakeRow(smi, analyse_smiles(smi, image_dir, NoFiles, FALSE).result)

\* The rows of the successful items among the first n, in input order.
RECURSIVE RowsOfSuccessful(_)
RowsOfSuccessful(n) ==
    IF n = 0 THEN <<>>
    ELSE IF Succeeds(n) THEN Append(RowsOfSuccessful(n - 1), RowAlone(smiles_list[n]))
    ELSE RowsOfSuccessful(n - 1)

\* The encodings of the failing items among the first n, in input order.
RECURSIVE FailingItems(_)
FailingItems(n) ==
    IF n = 0 THEN <<>>
    ELSE IF Succeeds(n) THEN FailingItems(n - 1)
    ELSE Append(FailingItems(n - 1), smiles_list[n])

\* C10: analyse_multiple never aborts; the table it returns has exactly one
\* row per successfully analysed encoding, in input order, each the row the
\* encoding gives on its own; the failing encodings have no row and are
\* logged.
C10_BatchIsolatesFailures ==
    /\ bpc # "raised"
    /\ bpc = "done" =>
          /\ bi = Len(smiles_list) + 1
          /\ rows = RowsOfSuccessful(Len(smiles_list))
          /\ [k \in 1..Len(logged) |-> logged[k][1]] = FailingItems(Len(smiles_list))

\* A returned table of a list whose first item failed to parse, whose last
\* item failed to save its image, with a successful item in between.
C10_Witness ==
    /\ bpc = "done"
    /\ Len(smiles_list) = 3
    /\ ~Valid(smiles_list[1])
    /\ Valid(smiles_list[3])
    /\ 3 \in save_raises
    /\ Len(rows) = 1
    /\ rows[1].SMILES = smiles_list[2]
    /\ Len(logged) = 2

----------------------------------------------------------------------------
(* analyse_smiles statement by statement, for calls that run concurrently  *)
(* (threads of one process) on one file system.  The disk itself works:    *)
(* the only errors are those the statements of analyse_smiles raise.       *)

\* Concurrent calls of analyse_smiles.
NumThreads == 2

\* The encodings the concurrent calls are given: two valid, one invalid.
AnalysePool == {<<"C", "C", "O">>, <<"O", "C">>, <<"C", "(">>}

\* The local variables of a call that has not yet run a statement.
StartCall(str, dir) ==
    [smiles |-> str, image_dir |-> dir, pc |-> "parse", mol |-> None,
     descriptors |-> None, lipinski |-> None, qed_score |-> None,
     admet_predictions |-> None, raised |-> "", result |-> None]

\* A slip in the order of the statements: the image directory is made
\* before the encoding is parsed.
StepParseDirFirst(loc, d) ==
    LET mol == MolFromSmiles(loc.smiles)
        made == IF loc.image_dir = "" THEN d
                ELSE [d EXCEPT !.dirs = @ \cup {loc.image_dir}]
    IN  IF mol = None
        THEN [loc |-> [loc EXCEPT !.pc = "raised", !.raised = "ValueError"],
              disk |-> made]
        ELSE [loc |-> [loc EXCEPT !.mol = mol, !.pc = "compute"], disk |-> made]

\* mol = Chem.MolFromSmiles(smiles); if mol is None: raise ValueError
StepParse(loc, d) ==
    LET mol == MolFromSmiles(loc.smiles)
    IN  IF mol = None
        THEN [loc |-> [loc EXCEPT !.pc = "raised", !.raised = "ValueError"],
              disk |-> d]
        ELSE [loc |-> [loc EXCEPT !.mol = mol, !.pc = "compute"], disk |-> d]

\* desc, lipinski, qed_score and admet: computed from mol alone.
StepCompute(loc, d) ==
    LET descriptors == compute_descriptors(loc.mol)
    IN  [loc |-> [loc EXCEPT !.descriptors = descriptors,
                             !.lipinski = evaluate_lipinski(descriptors),
                             !.qed_score = qed(loc.mol),
                             !.admet_predictions = heuristic_admet(descriptors),
                             !.pc = "check_dir"],
         disk |-> d]

\* The dictionary analyse_smiles returns.
ResultOf(loc, image_path) ==
    [smiles |-> loc.smiles,
     mol |-> loc.mol,
     descriptors |-> loc.descriptors,
     lipinski_pass |-> loc.lipinski.lipinski_pass,
     lipinski_violations |-> loc.lipinski.violations,
     qed_score |-> loc.qed_score,
     admet_predictions |-> loc.admet_predictions,
     image_path |-> image_path]

\* if image_dir: if not os.path.exists(image_dir): ...; without an image
\* directory the call returns with image_path None.
StepCheckDir(loc, d) ==
    IF loc.image_dir = ""
    THEN [loc |-> [loc EXCEPT !.pc = "returned", !.result = ResultOf(loc, None)],
          disk |-> d]
    ELSE IF loc.image_dir \in d.dirs
    THEN [loc |-> [loc EXCEPT !.pc = "save"], disk |-> d]
    ELSE [loc |-> [loc EXCEPT !.pc = "makedirs"], disk |-> d]

\* os.makedirs(image_dir), exist_ok not given: FileExistsError when the
\* directory exists by now.
StepMakeDirs(loc, d) ==
    IF loc.image_dir \in d.dirs
    THEN [loc |-> [loc EXCEPT !.pc = "raised", !.raised = "FileExistsError"],
          disk |-> d]
    ELSE [loc |-> [loc EXCEPT !.pc = "save"],
          disk |-> [d EXCEPT !.dirs = @ \cup {loc.image_dir}]]

\* img = Draw.MolToImage(mol); img.save(filename); return {...}
StepSave(loc, d) ==
    LET filename == ImageFile(loc.image_dir, loc.smiles)
    IN  [loc |-> [loc EXCEPT !.pc = "returned", !.result = ResultOf(loc, filename)],
         disk |-> SaveImage(d, filename, loc.mol)]

InitAnalyse ==
    /\ EvalIdle
    /\ DerivIdle
    /\ BatchIdle
    /\ EditIdle
    /\ LlmIdle
    /\ ScrapeIdle
    /\ threads \in [1..NumThreads ->
                      {StartCall(str, dir) : str \in AnalysePool,
                                             dir \in {"", "molecule_images"}}]
    /\ disk \in {NoFiles, [dirs |-> {"molecule_images"}, files |-> {}]}

\* A thread at "parse" runs its next statement (line 177-179).
Parse ==
    \E t \in 1..NumThreads :
        /\ threads[t].pc = "parse"
        /\ threads' = [threads EXCEPT ![t] = StepParse(threads[t], disk).loc]
        /\ disk' = StepParse(threads[t], disk).disk
        /\ UNCHANGED <<evalVars, derivVars, batchVars, editVars, llmVars, scrapeVars>>

\* A thread at "compute" runs its next statement (lines 182-185).
Compute ==
    \E t \in 1..NumThreads :
        /\ threads[t].pc = "compute"
        /\ threads' = [threads EXCEPT ![t] = StepCompute(threads[t], disk).loc]
        /\ disk' = StepCompute(threads[t], disk).disk
        /\ UNCHANGED <<evalVars, derivVars, batchVars, editVars, llmVars, scrapeVars>>

\* A thread at "check_dir" runs its next statement (lines 187-188).
CheckDir ==
    \E t \in 1..NumThreads :
        /\ threads[t].pc = "check_dir"
        /\ threads' = [threads EXCEPT ![t] = StepCheckDir(threads[t], disk).loc]
        /\ disk' = StepCheckDir(threads[t], disk).disk
        /\ UNCHANGED <<evalVars, derivVars, batchVars, editVars, llmVars, scrapeVars>>

\* A thread at "makedirs" runs its next statement (line 189).
MakeDirs ==
    \E t \in 1..NumThreads :
        /\ threads[t].pc = "makedirs"
        /\ threads' = [threads EXCEPT ![t] = StepMakeDirs(threads[t], disk).loc]
        /\ disk' = StepMakeDirs(threads[t], disk).disk
        /\ UNCHANGED <<evalVars, derivVars, batchVars, editVars, llmVars, scrapeVars>>

\* A thread at "save" runs its next statement (lines 190-203).
Save ==
    \E t \in 1..NumThreads :
        /\ threads[t].pc = "save"
        /\ threads' = [threads EXCEPT ![t] = StepSave(threads[t], disk).loc]
        /\ disk' = StepSave(threads[t], disk).disk
        /\ UNCHANGED <<evalVars, derivVars, batchVars, editVars, llmVars, scrapeVars>>

NextAnalyse == Parse \/ Compute \/ CheckDir \/ MakeDirs \/ Save

SpecAnalyse == InitAnalyse /\ [][NextAnalyse]_vars

Finished(t) == threads[t].pc \in {"returned", "raised"}

\* C11: a call on an encoding that cannot be parsed ends at its first
\* statement with ValueError: it has computed no descriptor, holds no result,
\* and leaves the file system (directories and image files) as it was.
C11_InvalidEncodingFailsFirst ==
    [][\A t \in DOMAIN threads :
          (~Valid(threads[t].smiles) /\ threads'[t] # threads[t])
          => /\ threads[t].pc = "parse"
             /\ threads'[t].pc = "raised"
             /\ threads'[t].raised = "ValueError"
             /\ threads'[t].descriptors = None
             /\ threads'[t].admet_predictions = None
             /\ threads'[t].result = None
             /\ disk' = disk]_vars

\* A call with an image directory has failed on an invalid encoding while the
\* directory does not exist and no image has been written.
C11_Witness ==
    \E t \in DOMAIN threads :
        /\ threads[t].raised = "ValueError"
        /\ threads[t].image_dir = "molecule_images"
        /\ disk = NoFiles

\* C14: every concurrent call ends as the same call run alone ends: it
\* raises what that call raises (nothing, for a valid encoding) and returns
\* what that call returns.
C14_ConcurrentCallsAsAlone ==
    \A t \in DOMAIN threads :
        Finished(t) =>
            LET alone == analyse_smiles(threads[t].smiles, threads[t].image_dir,
                                        NoFiles, FALSE)
            IN  /\ threads[t].raised = alone.raised
                /\ alone.raised = "" => threads[t].result = alone.result

----------------------------------------------------------------------------
(* Further properties of heuristic_admet, checked under SpecEval.          *)

\* The descriptor set of scenario C: MolWt = 450, LogP = 3, tPSA = 50.
ScenarioC == desc.MolWt = 450 /\ desc.LogP = 3 /\ desc.tPSA = 50

\* The remaining descriptors are within the limits the rules compare with.
WithinLimits ==
    /\ desc.NumRotatableBonds <= 10
    /\ desc.NumHDonors <= 5
    /\ desc.NumHAcceptors <= 10

\* C15 as stated: every descriptor set of scenario C, whatever its remaining
\* descriptors, is labelled Absorption good, BrainPenetration possible or
\* likely, Toxicity low and Clearance moderate.
C15_ScenarioC ==
    (admet # None /\ ScenarioC)
    => /\ admet.Absorption = "good"
       /\ admet.BrainPenetration \in {"possible", "likely"}
       /\ admet.Toxicity = "low"
       /\ admet.Clearance = "moderate"

\* C15 amended: a descriptor set of scenario C with at most 10 rotatable
\* bonds, at most 5 donors and at most 10 acceptors is labelled Absorption
\* good, BrainPenetration likely, Toxicity low and Clearance moderate; with
\* more than 10 rotatable bonds Absorption is poor, and with more than 5
\* donors or more than 10 acceptors Toxicity is moderate.
C15_ScenarioCWithinLimits ==
    (admet # None /\ ScenarioC)
    => /\ admet.BrainPenetration = "likely"
       /\ admet.Clearance = "moderate"
       /\ admet.Absorption = IF desc.NumRotatableBonds > 10 THEN "poor" ELSE "good"
       /\ admet.Toxicity = IF desc.NumHDonors > 5 \/ desc.NumHAcceptors > 10
                           THEN "moderate" ELSE "low"
       /\ WithinLimits => (admet.Absorption = "good" /\ admet.Toxicity = "low")

\* Scenario C has been labelled, its remaining descriptors within the limits.
C15_Witness ==
    /\ admet # None
    /\ ScenarioC
    /\ WithinLimits
    /\ admet = [Absorption |-> "good", BrainPenetration |-> "likely",
                Toxicity |-> "low", Clearance |-> "moderate"]

\* The condition the documentation of heuristic_admet gives for good
\* absorption: LogP between 1 and 5 and tPSA < 140.
DocumentedGood == desc.LogP >= 1 /\ desc.LogP <= 5 /\ desc.tPSA < 140

\* C16 as stated: Absorption is good whenever LogP is between 1 and 5 and
\* tPSA < 140.
C16_DocumentedAbsorption ==
    (admet # None /\ DocumentedGood) => admet.Absorption = "good"

\* C16 amended: Absorption is good whenever LogP is between 1 and 5 and
\* tPSA < 140, provided MolWt <= 600 and there are at most 10 rotatable
\* bonds; when LogP and tPSA are so but MolWt > 600 or there are more than
\* 10 rotatable bonds, Absorption is poor.
C16_DocumentedAbsorptionWithinSize ==
    (admet # None /\ DocumentedGood)
    => admet.Absorption =
           IF desc.MolWt > 600 \/ desc.NumRotatableBonds > 10 THEN "poor" ELSE "good"

\* A descriptor set at the upper end of the documented LogP range, of
\* moderate size and flexibility, has been labelled good.
C16_Witness ==
    /\ admet # None
    /\ desc.LogP = 5
    /\ desc.tPSA < 140
    /\ desc.MolWt <= 600
    /\ desc.NumRotatableBonds <= 10
    /\ admet.Absorption = "good"

----------------------------------------------------------------------------
(* generate_derivatives.py: the edits statement by statement.  Molecules   *)
(* are objects on a heap, so that an edit made through one reference is    *)
(* seen through every reference to the same object.                        *)

\* Largest |delta| propose_chain_variants is called with.
MaxDelta == 2

Deltas == ((0 - MaxDelta)..MaxDelta) \ {0}

\* The encodings the edits are made on: the valid ones, and 1-propanol
\* written from its middle carbon (its methyl carbon is not the last atom).
EditPool ==
    {str \in Encodings : Valid(str)} \cup {<<"C", "(", "C", ")", "C", "O">>}

\* The reference of the parsed molecule, mol: the first object made.
MolRef == 1

\* A slip in the copy: the working molecule is the parsed molecule itself.
RWMolAlias(h, ref) == [heap |-> h, ref |-> ref]

\* Chem.RWMol(mol): a new object with the atoms and bonds of mol.
RWMol(h, ref) == [heap |-> Append(h, h[ref]), ref |-> Len(h) + 1]

\* A slip in the loop: the degree test is left out.
ShortenOnceAlways(g, degree, idx) ==
    IF idx > NumAtoms(g) THEN RangeError ELSE RemoveAtom(g, idx)

\* One iteration of "for i in range(-delta)" on the working molecule g:
\* degree is chain_atom.GetDegree().
ShortenOnce(g, degree, idx) ==
    IF degree # 1 THEN g
    ELSE IF idx > NumAtoms(g) THEN RangeError
    ELSE RemoveAtom(g, idx)

\* The products of a reaction as new objects, in some order.
RECURSIVE SeqOfSet(_)
SeqOfSet(S) ==
    IF S = {} THEN <<>>
    ELSE LET x == CHOOSE y \in S : TRUE IN <<x>> \o SeqOfSet(S \ {x})

\* The edit of one loop iteration applied at atom a: the loop body reads
\* only the last atom of the match.
MatchEndingAt(a) == <<a, a, a>>

InitEdit ==
    /\ EvalIdle
    /\ DerivIdle
    /\ BatchIdle
    /\ AnalyseIdle
    /\ LlmIdle
    /\ ScrapeIdle
    /\ esmiles \in EditPool
    /\ eentry \in {"matches", "atom"}
    /\ eop \in {"chain", "hydroxylate"}
    /\ eentry = "atom" => eop = "chain"
    /\ edelta \in IF eop = "chain" THEN Deltas ELSE {0}
    /\ heap = <<_safe_mol_from_smiles(esmiles)>>
    /\ IF eop = "hydroxylate" THEN eleft = {}
       ELSE IF eentry = "matches" THEN eleft = TerminalChainMatches(heap[MolRef])
       ELSE \E a \in 1..NumAtoms(heap[MolRef]) : eleft = {MatchEndingAt(a)}
    /\ epc = IF eop = "chain" THEN "next" ELSE "react"
    /\ ematch = <<>>
    /\ rw_mol = 0
    /\ end_idx = 0
    /\ ei = 0
    /\ evariants = {}

\* for match in matches: end_idx = match[-1]; chain_atom = ...;
\* rw_mol = Chem.RWMol(mol)
NextMatch ==
    /\ epc = "next"
    /\ \E match \in eleft :
          /\ ematch' = match
          /\ eleft' = eleft \ {match}
          /\ end_idx' = EndIdx(match)
    /\ heap' = RWMol(heap, MolRef).heap
    /\ rw_mol' = RWMol(heap, MolRef).ref
    /\ ei' = IF edelta > 0 THEN edelta ELSE 0 - edelta
    /\ epc' = "edit"
    /\ UNCHANGED <<evalVars, derivVars, batchVars, analyseVars, llmVars, scrapeVars,
                   esmiles, eentry, eop, edelta, evariants>>

\* One iteration of "for i in range(delta)": a carbon bonded at end_idx,
\* which moves to the new atom.
AddCarbon ==
    /\ epc = "edit"
    /\ edelta > 0
    /\ ei > 0
    /\ heap' = [heap EXCEPT ![rw_mol] = Lengthen(@, end_idx, 1)]
    /\ end_idx' = NumAtoms(heap[rw_mol]) + 1
    /\ ei' = ei - 1
    /\ UNCHANGED <<evalVars, derivVars, batchVars, analyseVars, llmVars, scrapeVars,
                   esmiles, eentry, eop, edelta, epc, eleft, ematch, rw_mol, evariants>>

\* One iteration of "for i in range(-delta)": chain_atom is the atom of mol at
\* match[-1], so its degree is read from the parsed molecule; end_idx stays.
RemoveCarbon ==
    /\ epc = "edit"
    /\ edelta < 0
    /\ ei > 0
    /\ LET degree == GetDegree(heap[MolRef], EndIdx(ematch))
           g == ShortenOnce(heap[rw_mol], degree, end_idx)
       IN  IF g = RangeError
           THEN /\ epc' = "raised"
                /\ UNCHANGED <<heap, ei>>
           ELSE /\ heap' = [heap EXCEPT ![rw_mol] = g]
                /\ ei' = IF degree # 1 THEN 0 ELSE ei - 1
                /\ epc' = epc
    /\ UNCHANGED <<evalVars, derivVars, batchVars, analyseVars, llmVars, scrapeVars,
                   esmiles, eentry, eop, edelta, eleft, ematch, rw_mol, end_idx,
                   evariants>>

\* variants.append(Chem.MolToSmiles(rw_mol, canonical=True))
Emit ==
    /\ epc = "edit"
    /\ ei = 0
    /\ evariants' = evariants \cup {MolToSmiles(heap[rw_mol])}
    /\ epc' = "next"
    /\ UNCHANGED <<evalVars, derivVars, batchVars, analyseVars, llmVars, scrapeVars,
                   esmiles, eentry, eop, edelta, heap, eleft, ematch, rw_mol,
                   end_idx, ei>>

\* if not matches: return [smiles]; return list(set(variants)) or [smiles]
ReturnVariants ==
    /\ epc = "next"
    /\ eleft = {}
    /\ evariants' = IF evariants = {} THEN {esmiles} ELSE evariants
    /\ epc' = "done"
    /\ UNCHANGED <<evalVars, derivVars, batchVars, analyseVars, llmVars, scrapeVars,
                   esmiles, eentry, eop, edelta, heap, eleft, ematch, rw_mol,
                   end_idx, ei>>

\* products = rxn.RunReactants((mol,)) and the loop over the products: each
\* product is a new molecule.
React ==
    /\ epc = "react"
    /\ heap' = heap \o SeqOfSet(RunReactants(heap[MolRef]))
    /\ evariants' = propose_hydroxylated(esmiles)
    /\ epc' = "done"
    /\ UNCHANGED <<evalVars, derivVars, batchVars, analyseVars, llmVars, scrapeVars,
                   esmiles, eentry, eop, edelta, eleft, ematch, rw_mol, end_idx, ei>>

NextEdit ==
    \/ NextMatch
    \/ AddCarbon
    \/ RemoveCarbon
    \/ Emit
    \/ ReturnVariants
    \/ React

SpecEdit == InitEdit /\ [][NextEdit]_vars

\* The heavy-atom degree of the anchor of the current iteration in the
\* parsed molecule.
AnchorDegree == GetDegree(heap[MolRef], EndIdx(ematch))

\* C12: the shortening edit with delta = -1 at an anchor of degree greater
\* than 1 removes no atom and raises no error: the working molecule stays
\* equal to the parsed one, and the variant emitted is its canonical form.
C12_TruncationFloor ==
    (eop = "chain" /\ edelta = -1 /\ ematch # <<>> /\ AnchorDegree > 1)
    => /\ epc # "raised"
       /\ heap[rw_mol] = heap[MolRef]
       /\ epc \in {"next", "done"} => MolToSmiles(heap[MolRef]) \in evariants

\* The shortening edit has been made at an anchor of degree greater than 1
\* and its variant emitted.
C12_Witness ==
    /\ eop = "chain"
    /\ edelta = -1
    /\ epc = "done"
    /\ ematch # <<>>
    /\ AnchorDegree > 1
    /\ evariants = {MolToSmiles(heap[MolRef])}

\* C13: no step changes the parsed molecule; every iteration starts on a new
\* object equal to the parsed molecule; what an iteration emits is the edit
\* applied to the parsed molecule, whatever the earlier iterations did.
C13_CopyOnEdit ==
    [][/\ heap[MolRef] = MolFromSmiles(esmiles)
       /\ heap'[MolRef] = heap[MolRef]
       /\ (epc = "next" /\ epc' = "edit")
          => /\ rw_mol' > Len(heap)
             /\ heap'[rw_mol'] = MolFromSmiles(esmiles)
       /\ (epc = "edit" /\ epc' = "next")
          => heap[rw_mol] = ChainEdit(MolFromSmiles(esmiles), ematch, edelta)
       /\ (epc = "react" /\ epc' = "done")
          => \A r \in (Len(heap) + 1)..Len(heap') : heap'[r] \in RunReactants(heap[MolRef])]_vars

\* Two iterations have edited their working molecules, and the parsed
\* molecule is as it was parsed.
C13_Witness ==
    /\ eop = "chain"
    /\ eentry = "matches"
    /\ Len(heap) = 3
    /\ epc = "edit"
    /\ ei = 0
    /\ heap[2] # heap[MolRef]
    /\ heap[3] # heap[MolRef]
    /\ heap[MolRef] = MolFromSmiles(esmiles)

\* C20: in propose_chain_variants with delta < 0, an iteration of the
\* shortening loop raises nothing, and it removes the atom at end_idx only
\* if that atom has degree 1 in the working molecule as it is now; otherwise
\* it stops and leaves the working molecule as it is.
C20_ShorteningChecksCurrentGraph ==
    [][(eentry = "matches" /\ epc = "edit" /\ edelta < 0 /\ ei > 0)
       => /\ epc' # "raised"
          /\ GetDegree(heap[rw_mol], end_idx) # 1
             => (heap'[rw_mol] = heap[rw_mol] /\ ei' = 0)]_vars

----------------------------------------------------------------------------
(* czech_cbd_analysis/llm_integration.py.  A JSON object is the set of its *)
(* <<key, value>> pairs, a JSON list a sequence.  The service answers a    *)
(* request with any status and body, or the connection fails.              *)

EmptyDict == {}

Dict1(key, value) == {<<key, value>>}

Has(d, key) == \E kv \in d : kv[1] = key

\* d.get(key, default)
Get(d, key, default) ==
    IF Has(d, key) THEN (CHOOSE kv \in d : kv[1] = key)[2] ELSE default

ChatEndpoint == "/v1/chat/completions"

EmbeddingsEndpoint == "/v1/embeddings"

TranslatePrompt ==
    "You are an assistant that translates text to English. Translate the user message without adding new information."

SummarisePrompt == "Summarise the following text in a concise and neutral manner."

Message(role, content) == [role |-> role, content |-> content]

\* payload = {"model": model, "messages": messages}, model left at its default
ChatPayload(messages) == [model |-> "gpt-oss-120b", messages |-> messages]

\* payload = {"model": model, "input": texts}, model left at its default
EmbedPayload(texts) == [model |-> "qwen3-embedding-4b", input |-> texts]

\* The payload each function hands to _post for the user's text.
PayloadOf(fn, text) ==
    CASE fn = "translate" ->
           ChatPayload(<<Message("system", TranslatePrompt), Message("user", text)>>)
      [] fn = "summarise" ->
           ChatPayload(<<Message("system", SummarisePrompt), Message("user", text)>>)
      [] fn = "embed" -> EmbedPayload(<<text>>)
      [] OTHER -> ChatPayload(<<Message("user", text)>>)

EndpointOf(fn) == IF fn = "embed" THEN EmbeddingsEndpoint ELSE ChatEndpoint

\* A slip in _post: the key is not tested.
KeyNeverMissing(key) == FALSE

\* if not api_key
KeyMissing(key) == key = ""

\* resp.get("choices", [{}])[0].get("message", {}).get("content", "")
FirstChoiceContent(resp) ==
    LET choices == Get(resp, "choices", <<EmptyDict>>)
    IN  IF Len(choices) = 0 THEN [raised |-> "IndexError"]
        ELSE [raised |-> "",
              value |-> Get(Get(choices[1], "message", EmptyDict), "content", "")]

Choice(content) == Dict1("message", Dict1("content", content))

\* The bodies the service answers with: one choice, two choices, no
\* "choices" key, an empty list of choices, a choice without message, a
\* message without content, and an embeddings answer.
Bodies ==
    {Dict1("choices", <<Choice("Hello")>>),
     Dict1("choices", <<Choice("Hello"), Choice("Other")>>),
     EmptyDict,
     Dict1("choices", <<>>),
     Dict1("choices", <<EmptyDict>>),
     Dict1("choices", <<Dict1("message", EmptyDict)>>),
     Dict1("data", <<Dict1("embedding", "vector")>>)}

\* What requests.post gives: a response, or (failed) a connection error.
Responses ==
    [failed : {FALSE}, status : {200, 500}, body : Bodies]
        \cup {[failed |-> TRUE, status |-> 0, body |-> EmptyDict]}

InitLlm ==
    /\ EvalIdle
    /\ DerivIdle
    /\ BatchIdle
    /\ AnalyseIdle
    /\ EditIdle
    /\ ScrapeIdle
    /\ lfn \in {"_post", "chat_completion", "translate", "summarise", "embed"}
    /\ api_key \in {"", "test"}
    /\ ltext \in {"Ahoj", "Long text"}
    /\ lpc = "call"
    /\ lendpoint = ""
    /\ lpayload = None
    /\ lsent = <<>>
    /\ lresp = None
    /\ lresult = None
    /\ lraised = ""

\* translate, summarise, chat_completion and embed build their payload and
\* call _post; a caller of _post passes endpoint and payload itself.
Call ==
    /\ lpc = "call"
    /\ lendpoint' = EndpointOf(lfn)
    /\ lpayload' = PayloadOf(lfn, ltext)
    /\ lpc' = "post"
    /\ UNCHANGED <<evalVars, derivVars, batchVars, analyseVars, editVars, scrapeVars,
                   lfn, api_key, ltext, lsent, lresp, lresult, lraised>>

\* if not api_key: raise ValueError
CheckKey ==
    /\ lpc = "post"
    /\ IF KeyMissing(api_key)
       THEN lpc' = "raised" /\ lraised' = "ValueError"
       ELSE lpc' = "send" /\ lraised' = lraised
    /\ UNCHANGED <<evalVars, derivVars, batchVars, analyseVars, editVars, scrapeVars,
                   lfn, api_key, ltext, lendpoint, lpayload, lsent, lresp, lresult>>

\* response = requests.post(url, json=payload, headers=headers, timeout=60)
Send ==
    /\ lpc = "send"
    /\ lsent' = Append(lsent, [endpoint |-> lendpoint, json |-> lpayload,
                               bearer |-> api_key])
    /\ \E response \in Responses :
          IF response.failed
          THEN lpc' = "raised" /\ lraised' = "ConnectionError" /\ lresp' = lresp
          ELSE lpc' = "status" /\ lraised' = lraised /\ lresp' = response
    /\ UNCHANGED <<evalVars, derivVars, batchVars, analyseVars, editVars, scrapeVars,
                   lfn, api_key, ltext, lendpoint, lpayload, lresult>>

\* response.raise_for_status(); return response.json()
Status ==
    /\ lpc = "status"
    /\ IF lresp.status >= 400
       THEN lpc' = "raised" /\ lraised' = "HTTPError" /\ lresult' = lresult
       ELSE IF lfn = "_post"
       THEN lpc' = "done" /\ lraised' = lraised /\ lresult' = lresp.body
       ELSE lpc' = "extract" /\ lraised' = lraised /\ lresult' = lresult
    /\ UNCHANGED <<evalVars, derivVars, batchVars, analyseVars, editVars, scrapeVars,
                   lfn, api_key, ltext, lendpoint, lpayload, lsent, lresp>>

\* The return statements of chat_completion (also of translate and
\* summarise, which return what it returns) and of embed.
Extract ==
    /\ lpc = "extract"
    /\ IF lfn = "embed"
       THEN lpc' = "done" /\ lraised' = lraised
            /\ lresult' = Get(lresp.body, "data", <<>>)
       ELSE IF FirstChoiceContent(lresp.body).raised # ""
       THEN lpc' = "raised" /\ lraised' = FirstChoiceContent(lresp.body).raised
            /\ lresult' = lresult
       ELSE lpc' = "done" /\ lraised' = lraised
            /\ lresult' = FirstChoiceContent(lresp.body).value
    /\ UNCHANGED <<evalVars, derivVars, batchVars, analyseVars, editVars, scrapeVars,
                   lfn, api_key, ltext, lendpoint, lpayload, lsent, lresp>>

NextLlm == Call \/ CheckKey \/ Send \/ Status \/ Extract

SpecLlm == InitLlm /\ [][NextLlm]_vars

\* C17: with an empty API key no request is ever sent, whichever function
\* is called, and the call ends by raising ValueError from _post.
C17_NoRequestWithoutKey ==
    api_key = ""
    => /\ lsent = <<>>
       /\ lpc \in {"call", "post", "raised"}
       /\ lpc = "raised" => lraised = "ValueError"

\* translate has been called with an empty key and has raised ValueError.
C17_Witness ==
    /\ lfn = "translate"
    /\ api_key = ""
    /\ lpc = "raised"
    /\ lraised = "ValueError"
    /\ lsent = <<>>

\* The content the claim expects: that of the first choice, or the empty
\* string when there is no choice, no message or no content.
ExpectedContent(resp) ==
    IF ~Has(resp, "choices") THEN ""
    ELSE IF Len(Get(resp, "choices", <<>>)) = 0 THEN ""
    ELSE IF ~Has(Get(resp, "choices", <<>>)[1], "message") THEN ""
    ELSE Get(Get(Get(resp, "choices", <<>>)[1], "message", EmptyDict), "content", "")

\* C18: chat_completion, translate and summarise, once answered with a
\* successful response, have sent exactly one POST, to the chat-completions
\* endpoint (translate and summarise with the system prompt followed by the
\* user's text), raise nothing, and return the content of the first choice
\* or, without choices, message or content, the empty string.
C18_OnePostFirstChoice ==
    (/\ lfn \in {"chat_completion", "translate", "summarise"}
     /\ lpc \in {"done", "raised"}
     /\ lresp # None
     /\ lresp.status < 400)
    => /\ Len(lsent) = 1
       /\ lsent[1].endpoint = ChatEndpoint
       /\ lfn = "translate"
          => lsent[1].json.messages =
                 <<Message("system", TranslatePrompt), Message("user", ltext)>>
       /\ lfn = "summarise"
          => lsent[1].json.messages =
                 <<Message("system", SummarisePrompt), Message("user", ltext)>>
       /\ lraised = ""
       /\ lresult = ExpectedContent(lresp.body)

----------------------------------------------------------------------------
(* scrape_czech_cbd.py: scrape_products.  A page is what parse_product_page*)
(* reads of it: the text of its product heading (h1) and of its title,     *)
(* "absent" when the page has no such element.  The network and the        *)
(* directory of saved pages are the environment: a request fails or gives  *)
(* a page, a saved file is absent, cannot be read, or holds a page.        *)

\* Longest list of URLs scrape_products is given.
MaxUrls == 2

\* The empty string as a page.
EmptyPage == [empty |-> TRUE, h1 |-> "absent", title |-> "absent"]

\* Pages: with a product heading, with a title only, with an empty heading
\* beside a title, and with neither.
Pages ==
    {[empty |-> FALSE, h1 |-> "THC-F Vape", title |-> "Czech CBD"],
     [empty |-> FALSE, h1 |-> "absent", title |-> "Czech CBD"],
     [empty |-> FALSE, h1 |-> "", title |-> "Czech CBD"],
     [empty |-> FALSE, h1 |-> "absent", title |-> "absent"]}

\* What requests.get and raise_for_status do for a URL.
NetOutcomes ==
    {[raises |-> TRUE, text |-> EmptyPage]}
        \cup [raises : {FALSE}, text : Pages \cup {EmptyPage}]

\* What the directory of saved pages holds for a URL.
NoFile == [exists |-> FALSE, readable |-> FALSE, text |-> EmptyPage]

FileOutcomes ==
    {NoFile, [exists |-> TRUE, readable |-> FALSE, text |-> EmptyPage]}
        \cup [exists : {TRUE}, readable : {TRUE}, text : Pages \cup {EmptyPage}]

\* A URL of the list with its environment.  Without html_dir no file is
\* looked at; a file that exists makes the network irrelevant.
UrlItems(dir) ==
    {item \in [url : {"https://www.czech-cbd.cz/thc-f-vape",
                      "https://www.czech-cbd.cz/epn-cartridge"},
               net : NetOutcomes, file : FileOutcomes] :
        /\ dir = "" => item.file = NoFile
        /\ item.file.exists => item.net = [raises |-> TRUE, text |-> EmptyPage]}

\* fetch_page(url, html_override=html): the override if given, else the
\* response text, or "" when the request raised.
fetch_page(net, html_override) ==
    IF html_override # None THEN html_override
    ELSE IF net.raises THEN EmptyPage
    ELSE net.text

Product(name, url) == [name |-> name, url |-> url]

\* parse_product_page(html, url): the name is the heading's text when there
\* is a heading, else the title's text when there is a title; without a
\* name the result is None.
parse_product_page(html, url) ==
    LET name == IF html.h1 # "absent" THEN html.h1
                ELSE IF html.title # "absent" THEN html.title
                ELSE ""
    IN  IF name = "" THEN None ELSE Product(name, url)

\* One iteration of the loop of scrape_products on the products so far:
\* the saved file is read when html_dir is given and the file exists.
ScrapeOne(acc, item, dir) ==
    IF dir # "" /\ item.file.exists /\ ~item.file.readable
    THEN [acc EXCEPT !.raised = "UnicodeDecodeError"]
    ELSE LET html == IF dir # "" /\ item.file.exists THEN item.file.text ELSE None
             page == fetch_page(item.net, html)
         IN  IF page.empty THEN acc
             ELSE IF parse_product_page(page, item.url) = None THEN acc
             ELSE [acc EXCEPT !.products =
                                  Append(@, parse_product_page(page, item.url))]

InitScrape ==
    /\ EvalIdle
    /\ DerivIdle
    /\ BatchIdle
    /\ AnalyseIdle
    /\ EditIdle
    /\ LlmIdle
    /\ html_dir \in {"", "html"}
    /\ urls \in SeqsUpTo(UrlItems(html_dir), MaxUrls)
    /\ spc = "loop"
    /\ si = 1
    /\ products = <<>>

\* for url in urls: ...
ScrapeNext ==
    /\ spc = "loop"
    /\ si <= Len(urls)
    /\ LET acc == ScrapeOne([products |-> products, raised |-> ""], urls[si], html_dir)
       IN  /\ products' = acc.products
           /\ spc' = IF acc.raised # "" THEN "raised" ELSE "loop"
    /\ si' = si + 1
    /\ UNCHANGED <<evalVars, derivVars, batchVars, analyseVars, editVars, llmVars,
                   urls, html_dir>>

\* return products
ReturnProducts ==
    /\ spc = "loop"
    /\ si > Len(urls)
    /\ spc' = "done"
    /\ UNCHANGED <<evalVars, derivVars, batchVars, analyseVars, editVars, llmVars,
                   urls, html_dir, si, products>>

NextScrape == ScrapeNext \/ ReturnProducts

SpecScrape == InitScrape /\ [][NextScrape]_vars

\* The page of an item that was fetched: the saved file's page when there is
\* one that can be read, the response's page when there is no saved file
\* and the request succeeds, and no page (the empty one) otherwise.
FetchedPage(item) ==
    IF html_dir # "" /\ item.file.exists
    THEN IF item.file.readable THEN item.file.text ELSE EmptyPage
    ELSE IF item.net.raises THEN EmptyPage ELSE item.net.text

\* The page has a name: a non-empty heading, or no heading and a non-empty
\* title.
Named(page) ==
    /\ ~page.empty
    /\ \/ page.h1 \notin {"absent", ""}
       \/ page.h1 = "absent" /\ page.title \notin {"absent", ""}

NameOf(page) == IF page.h1 # "absent" THEN page.h1 ELSE page.title

\* The products of the first n URLs whose page was fetched and named.
RECURSIVE ProductsOfFetched(_)
ProductsOfFetched(n) ==
    IF n = 0 THEN <<>>
    ELSE IF Named(FetchedPage(urls[n]))
    THEN Append(ProductsOfFetched(n - 1),
                Product(NameOf(FetchedPage(urls[n])), urls[n].url))
    ELSE ProductsOfFetched(n - 1)

\* C19: scrape_products never raises, and returns exactly the products of
\* the URLs whose page was fetched and parsed to a named product, in the
\* order of the URLs.
C19_SkipsAndContinues ==
    /\ spc # "raised"
    /\ spc = "done" => products = ProductsOfFetched(Len(urls))

----------------------------------------------------------------------------
(* Hydroxylation, checked under SpecEdit.                                  *)

\* The terminal-methyl occurrences: carbons with exactly one heavy-atom
\* neighbour and three hydrogens whose neighbour is no heteroatom.
TerminalMethylOccurrences(g) ==
    {a \in 1..NumAtoms(g) :
        /\ g.atoms[a] = "C"
        /\ GetDegree(g, a) = 1
        /\ GetTotalNumHs(g, a) = 3
        /\ \A n \in Neighbors(g, a) : g.atoms[n] = "C"}

\* The graph with a new hydroxyl oxygen singly bonded to atom a, which keeps
\* two hydrogens.
Hydroxylate(g, a) ==
    [atoms |-> Append(g.atoms, "O"), bonds |-> g.bonds \cup {{a, NumAtoms(g) + 1}}]

\* C21: the graphs propose_hydroxylated produces are exactly the
\* hydroxylations at the terminal-methyl occurrences of the input, one per
\* occurrence; without an occurrence it returns nothing but the original.
C21_HydroxylationAtTerminalMethyls ==
    (eop = "hydroxylate" /\ epc = "done")
    => LET occurrences == TerminalMethylOccurrences(heap[MolRef])
       IN  /\ {heap[r] : r \in 2..Len(heap)}
                  = {Hydroxylate(heap[MolRef], a) : a \in occurrences}
           /\ Len(heap) = 1 + Cardinality(occurrences)
           /\ occurrences = {} => evariants = {esmiles}

----------------------------------------------------------------------------
(* Lipinski evaluation and ADMET labels of the same descriptor set,        *)
(* checked under SpecEval.                                                 *)

\* C23: when both evaluations have been made of the descriptor set, a
\* passing Lipinski evaluation goes with Toxicity low and an Absorption
\* other than moderate, and Toxicity low goes with the sub-rules LogP<=5,
\* HBD<=5 and HBA<=10 all being true.
C23_LipinskiAdmetConsistent ==
    (lip # None /\ admet # None)
    => /\ lip.lipinski_pass
          => (admet.Toxicity = "low" /\ admet.Absorption # "moderate")
       /\ admet.Toxicity = "low"
          => \A k \in {"LogP<=5", "HBD<=5", "HBA<=10"} : lip.violations[k]

\* Both evaluations have been made of a descriptor set at the LogP limit
\* that passes and is labelled of low toxicity.
C23_Witness ==
    /\ lip # None
    /\ admet # None
    /\ desc.LogP = 5
    /\ lip.lipinski_pass
    /\ admet.Toxicity = "low"
    /\ admet.Absorption = "good"

----------------------------------------------------------------------------
(* analyse_multiple with an image directory, on encodings that write their *)
(* single bonds out.                                                       *)

\* Ethane and methanol, written without and with bond symbols.
ImagePool ==
    {<<"C", "C">>, <<"C", "-", "C">>, <<"C", "/", "C">>, <<"C", "\\", "C">>,
     <<"C", "O">>, <<"C", "/", "O">>}

InitImages ==
    /\ EvalIdle
    /\ DerivIdle
    /\ ExtIdle
    /\ smiles_list \in SeqsUpTo(ImagePool, MaxBatch)
    /\ image_dir = "molecule_images"
    /\ save_raises \in SUBSET (1..Len(smiles_list))
    /\ bpc = "loop"
    /\ bi = 1
    /\ rows = <<>>
    /\ logged = <<>>
    /\ fs = NoFiles

SpecImages == InitImages /\ [][NextBatch]_vars

\* The characters smiles_to_safe_filename replaces.
UnsafeCharacters == {"/", "\\", "#", "*", "?", ":", "<", ">"}

\* C22: in the table analyse_multiple returns, rows of distinct encodings
\* have distinct image files, the file of each row depicts the molecule of
\* that row, and no file name holds a replaced character.
C22_DistinctImageFiles ==
    bpc = "done"
    => /\ \A i, j \in 1..Len(rows) :
              rows[i].SMILES # rows[j].SMILES
              => rows[i].ImagePath # rows[j].ImagePath
       /\ \A i \in 1..Len(rows) :
              /\ [path |-> rows[i].ImagePath, depicts |-> Canonical(rows[i].SMILES)]
                     \in fs.files
              /\ \A k \in 1..Len(rows[i].ImagePath.name) :
                     rows[i].ImagePath.name[k] \notin UnsafeCharacters

====
